---------------------------- MODULE Spec2Model ----------------------------
(***************************************************************************)
(* Model of the TAQ trade/quote pipeline of TAQCode:                       *)
(*   - top50_trades_corresponding_quotes_persist.py: build_ts_us, the      *)
(*     per (symbol, day, hour) backward as-of join and the streaming       *)
(*     ParquetWriter loop of main();                                       *)
(*   - ms.py: the per-trade metrics and the summary of analyze_ticker;     *)
(*   - makesTradesColsUpper.py and rename.py: the upper-casing of the      *)
(*     column names of the input files (specification SpecRename).         *)
(*                                                                         *)
(* Representation.  A TIME_M value (pl.Time, nanosecond resolution) is the *)
(* tuple <<hour, minute, second, nanosecond>>, the four components the     *)
(* code reads with .dt.hour(), .dt.minute(), .dt.second() and              *)
(* .dt.nanosecond(); a null TIME_M is the empty tuple.  A DATE is a day    *)
(* number.  A pl.Datetime("us") value is the tuple                         *)
(* <<day, second of day, microsecond of second>>, compared                 *)
(* lexicographically: the single 64-bit microsecond count of the program   *)
(* does not fit the 32-bit integers of the model checker, the mixed-radix  *)
(* form holds the same value.  Prices are integer ticks.                   *)
(*                                                                         *)
(* Every modelled instrument has an empty SYM_SUFFIX, so an instrument is  *)
(* its SYM_ROOT.  Input files are in event order (DATE, TIME_M), as the    *)
(* as-of join requires of its inputs.                                      *)
(***************************************************************************)
EXTENDS Integers, Sequences, FiniteSets

\* ------------------------------------------------------------------ constants

\* a polars null / Python None in an integer-valued column
Null == -1

NanosPerMicro == 1000
SecondsPerDay == 86400
\* TOLERANCE = "1s", in the microsecond unit of TS
ToleranceSeconds == 1
\* for hr in range(24)
HoursPerDay == 24
max_err_print == 30
\* ms.py: the event-time horizon of MR
K_FWD_TRADES == 10

\* ------------------------------------------------------------------ bounds

\* most quote records / trade records in the input files of one run
MaxQuotes == 3
MaxTrades == 2
\* largest --CHUNK_SIZE argument tried
MaxChunk == 2

\* ------------------------------------------------------------------ time

NullTime == <<>>

Hour(tm) == IF tm = NullTime THEN Null ELSE tm[1]

\* whole seconds of a TIME_M since midnight
SecOfDay(tm) == (tm[1] * 60 + tm[2]) * 60 + tm[3]

\* event order of two non-null (DATE, TIME_M) instants at nanosecond resolution
InstantLeq(d1, t1, d2, t2) ==
    \/ d1 < d2
    \/ d1 = d2 /\ SecOfDay(t1) < SecOfDay(t2)
    \/ d1 = d2 /\ SecOfDay(t1) = SecOfDay(t2) /\ t1[4] <= t2[4]

InstantLt(d1, t1, d2, t2) == InstantLeq(d1, t1, d2, t2) /\ ~InstantLeq(d2, t2, d1, t1)

\* d2,t2 is at most the tolerance (1 s) after d1,t1, at nanosecond resolution
InstantWithinTol(d1, t1, d2, t2) ==
    LET ds == (d2 - d1) * SecondsPerDay + SecOfDay(t2) - SecOfDay(t1)
    IN  \/ ds < ToleranceSeconds
        \/ ds = ToleranceSeconds /\ t2[4] <= t1[4]

\* build_ts_us: DATE.cast(Datetime("us")) + duration(hours, minutes, seconds,
\* microseconds = nanosecond // 1_000)
build_ts_us(r) == <<r.DATE, SecOfDay(r.TIME_M), r.TIME_M[4] \div NanosPerMicro>>

TsLeq(a, b) ==
    \/ a[1] < b[1]
    \/ a[1] = b[1] /\ a[2] < b[2]
    \/ a[1] = b[1] /\ a[2] = b[2] /\ a[3] <= b[3]

TsLt(a, b) == TsLeq(a, b) /\ a # b

\* left - right <= tolerance, for right <= left (difference of two Datetime("us"))
TsWithinTol(right, left) ==
    LET ds == (left[1] - right[1]) * SecondsPerDay + left[2] - right[2]
    IN  \/ ds < ToleranceSeconds
        \/ ds = ToleranceSeconds /\ left[3] <= right[3]

\* ------------------------------------------------------------------ input data

\* pl.col("SYM_ROOT").str.to_uppercase() on the symbols the model uses
to_uppercase(s) == IF s = "abc" THEN "ABC" ELSE s

\* a quote record; seq is its native sequence number (QU_SEQNUM), a column
\* the join passes through
Quote(sym, d, tm, bid, ask, bsz, asz, seq) ==
    [SYM_ROOT |-> sym, DATE |-> d, TIME_M |-> tm,
     BID |-> bid, ASK |-> ask, BIDSIZ |-> bsz, ASKSIZ |-> asz,
     QU_SEQNUM |-> seq]

Trade(id, sym, d, tm, price, size) ==
    [TR_ID |-> id, SYM_ROOT |-> sym, DATE |-> d, TIME_M |-> tm,
     PRICE |-> price, SIZE |-> size]

\* The quote records a run's quote files are drawn from, in event order
\* (the records with a null DATE or TIME_M last).
QuoteCands ==
    << Quote("ABC", 1, <<0, 0, 0, 0>>,           998, 1000, 1, 1, 1),
       Quote("ABC", 1, <<0, 0, 0, 100>>,         999, 1001, 2, 1, 2),
       Quote("ABC", 1, <<0, 0, 0, 150>>,        1001, 1003, 2, 2, 3),
       Quote("ABC", 1, <<0, 0, 0, 200>>,        1003, 1005, 3, 2, 4),
       Quote("ABC", 1, <<0, 59, 59, 900000000>>, 1005, 1007, 1, 3, 5),
       Quote("ABC", 1, <<1, 30, 0, 0>>,         1007, 1009, 1, 1, 6),
       Quote("ABC", Null, <<0, 0, 0, 100>>,      997,  999, 1, 1, 7),
       Quote("ABC", 1, NullTime,                 996,  998, 1, 1, 8) >>

\* The trade records a run's trade files are drawn from, in event order.
TradeCands ==
    << Trade(1, "ABC", 1, <<0, 0, 0, 0>>,           1000, 10),
       Trade(2, "ABC", 1, <<0, 0, 0, 120>>,         1001, 10),
       Trade(3, "ABC", 1, <<0, 0, 0, 180>>,         1005, 20),
       Trade(4, "ABC", 1, <<0, 0, 1, 500>>,         1002, 10),
       Trade(5, "ABC", 1, <<0, 0, 3, 0>>,           1003, 10),
       Trade(6, "ABC", 1, <<1, 0, 0, 100000000>>,   1006, 10),
       Trade(7, "ABC", Null, <<0, 0, 0, 120>>,      1001, 10),
       Trade(8, "ABC", 1, NullTime,                 1001, 10) >>

\* a quote and a trade of a second instrument, and of a second day
XyzQuote  == Quote("XYZ", 1, <<0, 0, 0, 150>>, 500, 502, 1, 1, 1)
XyzTrade  == Trade(9, "XYZ", 1, <<0, 0, 0, 180>>, 501, 10)
Day2Quote == Quote("ABC", 2, <<0, 0, 0, 100>>, 1009, 1011, 1, 1, 9)
Day2Trade == Trade(10, "ABC", 2, <<0, 0, 0, 120>>, 1010, 10)

\* One hour of ABC for the metrics: fourteen trades half a second after the
\* quotes of seconds 1..14 (prices in ticks of 0.01 around 100.00).  There is
\* no quote for the trade of second 3, the quote of second 4 is the
\* bid = ask = 0 sentinel and the quote of second 8 is negative; the trade of
\* second 6 has no PRICE and the trade of second 7 no SIZE.
MetricQuotes ==
    << Quote("ABC", 1, <<0, 0, 1, 0>>,   9999, 10001, 1, 1, 1),
       Quote("ABC", 1, <<0, 0, 2, 0>>,  10001, 10003, 1, 1, 2),
       Quote("ABC", 1, <<0, 0, 4, 0>>,      0,     0, 0, 0, 3),
       Quote("ABC", 1, <<0, 0, 5, 0>>,  10003, 10005, 1, 1, 4),
       Quote("ABC", 1, <<0, 0, 6, 0>>,  10003, 10005, 1, 1, 5),
       Quote("ABC", 1, <<0, 0, 7, 0>>,  10003, 10005, 1, 1, 6),
       Quote("ABC", 1, <<0, 0, 8, 0>>,     -4,    -2, 1, 1, 7),
       Quote("ABC", 1, <<0, 0, 9, 0>>,   9999, 10001, 1, 1, 8),
       Quote("ABC", 1, <<0, 0, 10, 0>>,  9999, 10001, 1, 1, 9),
       Quote("ABC", 1, <<0, 0, 11, 0>>,  9998, 10000, 1, 1, 10),
       Quote("ABC", 1, <<0, 0, 12, 0>>,  9997,  9999, 1, 1, 11),
       Quote("ABC", 1, <<0, 0, 13, 0>>,  9998, 10000, 1, 1, 12),
       Quote("ABC", 1, <<0, 0, 14, 0>>,  9999, 10001, 1, 1, 13) >>

MetricTrades ==
    << Trade(11, "ABC", 1, <<0, 0, 1, 500000000>>,  10000, 10),
       Trade(12, "ABC", 1, <<0, 0, 2, 500000000>>,  10005, 10),
       Trade(13, "ABC", 1, <<0, 0, 3, 500000000>>,  10001, 10),
       Trade(14, "ABC", 1, <<0, 0, 4, 500000000>>,  10003, 10),
       Trade(15, "ABC", 1, <<0, 0, 5, 500000000>>,  10003, 10),
       Trade(16, "ABC", 1, <<0, 0, 6, 500000000>>,   Null, 10),
       Trade(17, "ABC", 1, <<0, 0, 7, 500000000>>,  10004, Null),
       Trade(18, "ABC", 1, <<0, 0, 8, 500000000>>,  10000, 10),
       Trade(19, "ABC", 1, <<0, 0, 9, 500000000>>,  10001, 10),
       Trade(20, "ABC", 1, <<0, 0, 10, 500000000>>,  9999, 10),
       Trade(21, "ABC", 1, <<0, 0, 11, 500000000>>,  9999, 10),
       Trade(22, "ABC", 1, <<0, 0, 12, 500000000>>,  9998, 10),
       Trade(23, "ABC", 1, <<0, 0, 13, 500000000>>, 10000, 10),
       Trade(24, "ABC", 1, <<0, 0, 14, 500000000>>, 10000, 10) >>

\* two quotes of one instant, the later update (sequence number 2) first in
\* the file, then a quote one second later; a trade after each instant
TieQuotes ==
    << Quote("ABC", 1, <<0, 0, 1, 0>>, 1003, 1005, 1, 1, 2),
       Quote("ABC", 1, <<0, 0, 1, 0>>,  999, 1001, 1, 1, 1),
       Quote("ABC", 1, <<0, 0, 2, 0>>, 1001, 1003, 1, 1, 3) >>

TieTrades ==
    << Trade(27, "ABC", 1, <<0, 0, 1, 500000000>>, 1002, 10),
       Trade(28, "ABC", 1, <<0, 0, 2, 500000000>>, 1002, 10) >>

\* two trades of size 0 after one quote
ZeroSizeTrades ==
    << Trade(25, "ABC", 1, <<0, 0, 1, 500000000>>, 10000, 0),
       Trade(26, "ABC", 1, <<0, 0, 1, 700000000>>, 10001, 0) >>

RECURSIVE PickFrom(_, _, _)
PickFrom(c, S, i) ==
    IF i > Len(c) THEN <<>>
    ELSE (IF i \in S THEN <<c[i]>> ELSE <<>>) \o PickFrom(c, S, i + 1)

\* the sub-sequences of c with at most k records
SubSeqs(c, k) ==
    { PickFrom(c, S, 1) : S \in { T \in SUBSET (1..Len(c)) : Cardinality(T) <= k } }

\* ------------------------------------------------------------------ upstream renaming

\* most fields of the schema of a trades file
MaxFields == 2

\* a column name is the sequence of its characters
LowerChars == <<"a", "b", "m", "t">>
UpperChars == <<"A", "B", "M", "T">>

\* a case mapping that also lowers the upper-case letters
swapcase_char(c) ==
    IF \E i \in DOMAIN LowerChars : LowerChars[i] = c
    THEN UpperChars[CHOOSE i \in DOMAIN LowerChars : LowerChars[i] = c]
    ELSE IF \E i \in DOMAIN UpperChars : UpperChars[i] = c
         THEN LowerChars[CHOOSE i \in DOMAIN UpperChars : UpperChars[i] = c]
         ELSE c

\* str.upper() on one character: a lower-case letter becomes its upper-case
\* letter, every other character stays
upper_char(c) ==
    IF \E i \in DOMAIN LowerChars : LowerChars[i] = c
    THEN UpperChars[CHOOSE i \in DOMAIN LowerChars : LowerChars[i] = c]
    ELSE c

\* name.upper()
upper(name) == [i \in DOMAIN name |-> upper_char(name[i])]

\* the column names of the files to normalise
ColumnNames ==
    { <<"a">>, <<"A">>, <<"a", "b">>, <<"A", "b">>, <<"t", "_", "m">>, <<"T", "_", "M">> }

ArrowTypes == {"int64", "time64[us]"}

Fields == [name : ColumnNames, type : ArrowTypes, nullable : BOOLEAN]

\* the Arrow schemas of the files to normalise: fields in order, and metadata
Schemas ==
    [fields : UNION { [1..n -> Fields] : n \in 0..MaxFields },
     metadata : {"", "pandas"}]

NoSchema == [fields |-> <<>>, metadata |-> ""]

\* upper_schema: pa.field(f.name.upper(), f.type, f.nullable, f.metadata) for
\* every field, in order, and the schema's metadata
upper_schema(sch) ==
    [fields |-> [i \in DOMAIN sch.fields |->
                    [name |-> upper(sch.fields[i].name),
                     type |-> sch.fields[i].type,
                     nullable |-> sch.fields[i].nullable]],
     metadata |-> sch.metadata]

\* the Arrow type polars writes for a column it read with Arrow type t: its
\* Time dtype counts nanoseconds
PolarsType(t) == IF t = "time64[us]" THEN "time64[ns]" ELSE t

\* rename.py: scan_parquet, rename({c: c.upper() for c in lf.columns}),
\* collect, write_parquet -- the names upper-cased, the columns as polars
\* writes them (every column nullable, the file's Arrow metadata not kept)
rename_schema(sch) ==
    [fields |-> [i \in DOMAIN sch.fields |->
                    [name |-> upper(sch.fields[i].name),
                     type |-> PolarsType(sch.fields[i].type),
                     nullable |-> TRUE]],
     metadata |-> ""]

\* two columns of the frame would get the same name
Collides(sch) ==
    \E i, j \in DOMAIN sch.fields :
        i # j /\ upper(sch.fields[i].name) = upper(sch.fields[j].name)

\* ------------------------------------------------------------------ the join

\* the shard filter with null dates let through (DATE is null or equals day)
InShard_nullpass(r, root, day, hour) ==
    /\ r.SYM_ROOT = root
    /\ r.DATE = Null \/ r.DATE = day
    /\ r.TIME_M # NullTime /\ Hour(r.TIME_M) = hour

\* the shard filter without the hour: every hour of a day sees the whole day
InShard_anyhour(r, root, day, hour) ==
    /\ r.SYM_ROOT = root
    /\ r.DATE # Null /\ r.DATE = day
    /\ r.TIME_M # NullTime

\* .filter(SYM_ROOT == sym_root & DATE == day & TIME_M.dt.hour() == hour):
\* a comparison with a null is null, and filter keeps only true rows
InShard(r, root, day, hour) ==
    /\ r.SYM_ROOT = root
    /\ r.DATE # Null /\ r.DATE = day
    /\ r.TIME_M # NullTime /\ Hour(r.TIME_M) = hour

ShardRows(file, root, day, hour) ==
    SelectSeq(file, LAMBDA r : InShard(r, root, day, hour))

\* quotes_lf = build_ts_us(quotes_lf).with_columns(MID, SPREAD, DEPTH_TOB)
\* (the candidates' BID + ASK is even, so the half is exact)
QuoteCols(q) ==
    [SYM_ROOT |-> q.SYM_ROOT, DATE |-> q.DATE, TIME_M |-> q.TIME_M,
     BID |-> q.BID, ASK |-> q.ASK, BIDSIZ |-> q.BIDSIZ, ASKSIZ |-> q.ASKSIZ,
     QU_SEQNUM |-> q.QU_SEQNUM,
     TS |-> build_ts_us(q),
     MID |-> (q.BID + q.ASK) \div 2,
     SPREAD |-> q.ASK - q.BID,
     DEPTH_TOB |-> q.BIDSIZ + q.ASKSIZ]

TradeCols(t) ==
    [TR_ID |-> t.TR_ID, SYM_ROOT |-> t.SYM_ROOT, DATE |-> t.DATE,
     TIME_M |-> t.TIME_M, PRICE |-> t.PRICE, SIZE |-> t.SIZE,
     TS |-> build_ts_us(t)]

\* the backward search with exact matches excluded (TS < instead of TS <=)
AsofBackward_strict(t, qs) ==
    LET ok == { j \in 1..Len(qs) :
                  qs[j].SYM_ROOT = t.SYM_ROOT /\ TsLt(qs[j].TS, t.TS) }
    IN  IF ok = {} THEN 0 ELSE CHOOSE j \in ok : \A k \in ok : k <= j

\* strategy="backward": the position in qs of the last quote of the trade's
\* by-group (SYM_ROOT) whose TS is <= the trade's TS, 0 if there is none
AsofBackward(t, qs) ==
    LET ok == { j \in 1..Len(qs) :
                  qs[j].SYM_ROOT = t.SYM_ROOT /\ TsLeq(qs[j].TS, t.TS) }
    IN  IF ok = {} THEN 0 ELSE CHOOSE j \in ok : \A k \in ok : k <= j

\* tolerance=TOLERANCE: the backward match counts only within the tolerance
AsofMatch(t, qs) ==
    LET j == AsofBackward(t, qs)
    IN  IF j # 0 /\ TsWithinTol(qs[j].TS, t.TS) THEN j ELSE 0

\* one row of the join result: every trade column, and the quote's columns
\* (DATE and TIME_M renamed *_right, the right key TS dropped) or nulls
JoinedRow(t, qs) ==
    LET j == AsofMatch(t, qs)
        m == j # 0
    IN  [TR_ID |-> t.TR_ID, SYM_ROOT |-> t.SYM_ROOT, DATE |-> t.DATE,
         TIME_M |-> t.TIME_M, PRICE |-> t.PRICE, SIZE |-> t.SIZE, TS |-> t.TS,
         DATE_right   |-> IF m THEN qs[j].DATE ELSE Null,
         TIME_M_right |-> IF m THEN qs[j].TIME_M ELSE NullTime,
         BID       |-> IF m THEN qs[j].BID ELSE Null,
         ASK       |-> IF m THEN qs[j].ASK ELSE Null,
         BIDSIZ    |-> IF m THEN qs[j].BIDSIZ ELSE Null,
         ASKSIZ    |-> IF m THEN qs[j].ASKSIZ ELSE Null,
         QU_SEQNUM |-> IF m THEN qs[j].QU_SEQNUM ELSE Null,
         MID       |-> IF m THEN qs[j].MID ELSE Null,
         SPREAD    |-> IF m THEN qs[j].SPREAD ELSE Null,
         DEPTH_TOB |-> IF m THEN qs[j].DEPTH_TOB ELSE Null]

\* the join as an inner join: the trades without a match are dropped
join_asof_inner(ts, qs) ==
    SelectSeq([i \in 1..Len(ts) |-> JoinedRow(ts[i], qs)], LAMBDA r : r.BID # Null)

\* trades_lf.join_asof(quotes_lf, ...): a left join, one row per trade
join_asof(ts, qs) == [i \in 1..Len(ts) |-> JoinedRow(ts[i], qs)]

Map(f(_), s) == [i \in 1..Len(s) |-> f(s[i])]

\* the frame per_symbol_per_hour_lazy(root, "", day, hour) collects to
per_symbol_per_hour_lazy(qfile, tfile, root, day, hour) ==
    join_asof(Map(TradeCols, ShardRows(tfile, root, day, hour)),
              Map(QuoteCols, ShardRows(qfile, root, day, hour)))

\* ------------------------------------------------------------------ state

VARIABLES
    quotes,       \* the rows of QUOTES_DIR/*.parquet (input, never written)
    trades,       \* the rows of TRADES_DIR/*.parquet (input, never written)
    top50,        \* the SYM_ROOT column of the TOP50 CSV (input)
    CHUNK_SIZE,   \* --CHUNK_SIZE
    fault,        \* what goes wrong in this run's environment (input)
    stale,        \* whether a previous run left a merged file (input)
    outFile,      \* OUT_DIR / OUT_FILE on disk
    pc,           \* position of the run
    symbols,      \* main(): symbols
    sidx,         \* main(): index of the current symbol in symbols
    d1,           \* main(): last day of the current symbol
    day,          \* main(): current day
    hr,           \* main(): current hour
    out_df,       \* main(): the collected join of the current shard
    off,          \* main(): offset of the next slice of out_df
    writer,       \* main(): writer (None or the ParquetWriter)
    closes,       \* number of times the ParquetWriter was closed
    total_rows,   \* main(): total_rows
    row_groups,   \* main(): row_groups
    err_printed,  \* main(): err_printed
    metrics,      \* ms.py: the rows of metrics_lf of the analysed ticker
    summary,      \* ms.py: the rows of summary_df
    in_schema,    \* the Arrow schema of a trades file being normalised
    tool,         \* the tool that normalises it
    once,         \* its schema after the first pass of the tool
    passes        \* the number of passes of the tool over it

\* the normalisation of the input files is over when the join runs
normv  == <<in_schema, tool, once, passes>>
inputs == <<quotes, trades, top50, CHUNK_SIZE, fault, stale, normv>>
loopv  == <<symbols, sidx, d1, day, hr>>
vars   == <<quotes, trades, top50, CHUNK_SIZE, fault, stale, outFile, pc,
            symbols, sidx, d1, day, hr, out_df, off, writer, closes,
            total_rows, row_groups, err_printed, metrics, summary,
            in_schema, tool, once, passes>>

NoFault == [kind |-> "none", root |-> "", day |-> 0, hr |-> 0, n |-> 0]

\* One thing that goes wrong in a run: the pre-count or the collect of one
\* shard raises, or of every shard of an instrument (day and hr Null: an
\* unreadable input file), one shard's frame has another schema than the
\* others (input files of drifting column types), or the n-th write_table
\* call raises.  The exceptions are of class Exception.
Faults ==
    { [kind |-> k, root |-> "ABC", day |-> 1, hr |-> h, n |-> 0] :
        k \in {"precount", "collect", "schema"}, h \in 0..1 }
    \cup { [kind |-> k, root |-> "ABC", day |-> Null, hr |-> Null, n |-> 0] :
             k \in {"precount", "collect"} }
    \cup { [kind |-> "write", root |-> "", day |-> 0, hr |-> 0, n |-> i] :
             i \in 1..MaxTrades + 1 }

FaultAt(kind, root, d, h) ==
    /\ fault.kind = kind /\ fault.root = root
    /\ fault.day \in {d, Null} /\ fault.hr \in {h, Null}

\* the arrow schema of the frame a shard collects to
SchemaOf(root, d, h) == IF FaultAt("schema", root, d, h) THEN "B" ELSE "A"

Absent == [exists |-> FALSE, closed |-> FALSE, rgs |-> <<>>]

\* a row a previous run wrote
StaleRow == JoinedRow(TradeCols(Trade(0, "ABC", 1, <<0, 0, 0, 0>>, 1000, 10)), <<>>)

\* the merged file a previous run left behind
StaleFile ==
    [exists |-> TRUE, closed |-> TRUE,
     rgs |-> << [run |-> "old", schema |-> "A", rows |-> <<StaleRow>>] >>]

NoWriter == [state |-> "none", schema |-> ""]

TopChoices == { <<>>, <<"ABC">>, <<"abc", "XYZ", "ABC">> }

\* The data sets under which every fault, symbol list, symbol order and
\* stale file is tried: two hours of one day; the three quotes and two
\* trades of one microsecond; two instruments and two days (two trades in
\* the first hour).
FaultData ==
    { <<PickFrom(QuoteCands, {2, 3, 6}, 1), PickFrom(TradeCands, {2, 6}, 1)>>,
      <<PickFrom(QuoteCands, {2, 3, 4}, 1), PickFrom(TradeCands, {2, 3}, 1)>>,
      <<PickFrom(QuoteCands, {2}, 1) \o <<XyzQuote>>
            \o PickFrom(QuoteCands, {4}, 1) \o <<Day2Quote>>,
        PickFrom(TradeCands, {2, 3}, 1) \o <<XyzTrade, Day2Trade>>>> }

\* the data sets the metrics are computed on, and the one with tied quotes
MetricData ==
    { <<MetricQuotes, MetricTrades>>,
      <<SubSeq(MetricQuotes, 1, 1), ZeroSizeTrades>>,
      <<TieQuotes, TieTrades>> }

\* the tickers a driver of ms.py asks for
Tickers == {"ABC", "XYZ"}

Init ==
    /\ \/ /\ quotes \in SubSeqs(QuoteCands, MaxQuotes)
          /\ trades \in SubSeqs(TradeCands, MaxTrades)
          /\ top50 = <<"abc">>
          /\ CHUNK_SIZE \in {1, MaxChunk}
          /\ fault = NoFault
          /\ stale = FALSE
       \/ /\ \E d \in FaultData : quotes = d[1] /\ trades = d[2]
          /\ top50 \in TopChoices
          /\ CHUNK_SIZE \in 1..MaxChunk
          /\ fault \in Faults \cup {NoFault}
          /\ stale \in BOOLEAN
       \/ /\ \E d \in MetricData : quotes = d[1] /\ trades = d[2]
          /\ top50 = <<"ABC">>
          /\ CHUNK_SIZE = MaxChunk
          /\ fault = NoFault
          /\ stale = FALSE
    /\ outFile = IF stale THEN StaleFile ELSE Absent
    /\ pc = "startup"
    /\ symbols = <<>>
    /\ sidx = 0 /\ d1 = 0 /\ day = 0 /\ hr = 0
    /\ out_df = <<>> /\ off = 0
    /\ writer = NoWriter
    /\ closes = 0
    /\ total_rows = 0 /\ row_groups = 0 /\ err_printed = 0
    /\ metrics = <<>>
    /\ summary = <<>>
    /\ in_schema = NoSchema /\ tool = "none" /\ once = NoSchema /\ passes = 0


\* ------------------------------------------------------------------ helpers of main()

Range(s) == { s[i] : i \in DOMAIN s }

Perms(S) ==
    { p \in [1..Cardinality(S) -> S] : \A i, j \in DOMAIN p : p[i] = p[j] => i = j }

\* top50.select(SYM_ROOT.str.to_uppercase()).unique(): the distinct symbols
UniqueSymbols(csv) == { to_uppercase(csv[i]) : i \in DOMAIN csv }

\* symbol_date_range: min and max DATE of the symbol's quotes (nulls are
\* skipped by min/max), <<Null, Null>> if there is none
symbol_date_range(root) ==
    LET ds == { quotes[i].DATE : i \in { k \in DOMAIN quotes :
                    quotes[k].SYM_ROOT = root /\ quotes[k].DATE # Null } }
    IN  IF ds = {} THEN <<Null, Null>>
        ELSE << CHOOSE d \in ds : \A e \in ds : d <= e,
                CHOOSE d \in ds : \A e \in ds : e <= d >>

root == symbols[sidx]

\* q_cnt, t_cnt of the pre-count
q_cnt == Len(ShardRows(quotes, root, day, hr))
t_cnt == Len(ShardRows(trades, root, day, hr))

\* the inner loops with hour 0 left out on the days after the first
Advance_from1 ==
    IF hr + 1 < HoursPerDay
    THEN /\ hr' = hr + 1 /\ day' = day /\ pc' = "shard"
    ELSE IF day + 1 <= d1
         THEN /\ hr' = 1 /\ day' = day + 1 /\ pc' = "shard"
         ELSE /\ pc' = "symbol" /\ UNCHANGED <<day, hr>>

\* the next (day, hr) of the two inner for loops, or back to the symbol loop
Advance ==
    IF hr + 1 < HoursPerDay
    THEN /\ hr' = hr + 1 /\ day' = day /\ pc' = "shard"
    ELSE IF day + 1 <= d1
         THEN /\ hr' = 0 /\ day' = day + 1 /\ pc' = "shard"
         ELSE /\ pc' = "symbol" /\ UNCHANGED <<day, hr>>

\* the except branch ending the run instead of the shard
Continue_raise == pc' = "raised" /\ UNCHANGED <<day, hr>>

\* except Exception as e: ... continue -- on to the next (day, hr)
Continue == Advance

\* if err_printed < max_err_print: print(...); err_printed += 1
LogErr == IF err_printed < max_err_print THEN err_printed + 1 ELSE err_printed

\* out_df.iter_slices(n_rows=CHUNK_SIZE): the slice starting at offset off
Min(a, b) == IF a <= b THEN a ELSE b
\* the slices taken from the end of the frame
Slice_back(df, o) ==
    SubSeq(df, Len(df) - Min(o + CHUNK_SIZE, Len(df)) + 1, Len(df) - o)

\* the rest of the frame as one slice, whatever CHUNK_SIZE
Slice_rest(df, o) == SubSeq(df, o + 1, Len(df))

Slice(df, o) == SubSeq(df, o + 1, Min(o + CHUNK_SIZE, Len(df)))

\* pq.ParquetWriter(where=OUT_FILE, schema=tbl.schema): creates (truncates)
\* the file and fixes the schema
OpenWriter(schema) == [state |-> "open", schema |-> schema]

\* a writer that takes a table of any schema
SchemaAccepted_any(w, schema) == TRUE

\* ParquetWriter.write_table raises ValueError unless the table's schema
\* equals the writer's
SchemaAccepted(w, schema) == schema = w.schema

\* the rows of every row group of a merged file, in file order
RECURSIVE FileRows(_)
FileRows(rgs) ==
    IF rgs = <<>> THEN <<>> ELSE Head(rgs).rows \o FileRows(Tail(rgs))

\* ------------------------------------------------------------------ actions

\* the start-up without the wipe
WipeOutDir_keep(f) == f

\* module level, lines 35-39: wipe OUT_DIR and recreate it
WipeOutDir(f) == Absent

Startup ==
    /\ pc = "startup"
    /\ outFile' = WipeOutDir(outFile)
    /\ pc' = "main"
    /\ UNCHANGED <<inputs, loopv, out_df, off, writer, closes, total_rows,
                   row_groups, err_printed, metrics,
                   summary>>

\* main(), lines 129-143: no symbol in the CSV
MainNoSymbols ==
    /\ pc = "main"
    /\ UniqueSymbols(top50) = {}
    /\ pc' = "raised"
    /\ UNCHANGED <<inputs, outFile, loopv, out_df, off, writer, closes,
                   total_rows, row_groups, err_printed, metrics,
                   summary>>

\* main(), lines 129-157: symbols (unique() keeps no order), unlink, counters
MainStart ==
    /\ pc = "main"
    /\ UniqueSymbols(top50) # {}
    /\ symbols' \in Perms(UniqueSymbols(top50))
    /\ outFile' = IF outFile.exists THEN Absent ELSE outFile
    /\ writer' = NoWriter
    /\ total_rows' = 0 /\ row_groups' = 0 /\ err_printed' = 0
    /\ sidx' = 0
    /\ pc' = "symbol"
    /\ UNCHANGED <<inputs, d1, day, hr, out_df, off, closes, metrics,
                   summary>>

\* for sidx, (root, suf) in enumerate(symbols): a symbol without quotes
SymbolSkip ==
    /\ pc = "symbol"
    /\ sidx < Len(symbols)
    /\ symbol_date_range(symbols[sidx + 1])[1] = Null
    /\ sidx' = sidx + 1
    /\ UNCHANGED <<inputs, outFile, pc, symbols, d1, day, hr, out_df, off,
                   writer, closes, total_rows, row_groups, err_printed, metrics,
                   summary>>

\* a symbol with quotes: enter for day in daterange(d0, d1): for hr in range(24)
SymbolStart ==
    /\ pc = "symbol"
    /\ sidx < Len(symbols)
    /\ LET r == symbol_date_range(symbols[sidx + 1])
       IN  /\ r[1] # Null
           /\ day' = r[1] /\ d1' = r[2]
    /\ hr' = 0
    /\ sidx' = sidx + 1
    /\ pc' = "shard"
    /\ UNCHANGED <<inputs, outFile, symbols, out_df, off, writer, closes,
                   total_rows, row_groups, err_printed, metrics,
                   summary>>

\* lines 173-200: the pre-count raises
PrecountFails ==
    /\ pc = "shard"
    /\ FaultAt("precount", root, day, hr)
    /\ err_printed' = LogErr
    /\ Continue
    /\ UNCHANGED <<inputs, outFile, symbols, sidx, d1, out_df, off, writer,
                   closes, total_rows, row_groups, metrics,
                   summary>>

\* the skip of an empty shard counted as a failure
ShardEmpty_logged ==
    /\ pc = "shard"
    /\ ~FaultAt("precount", root, day, hr)
    /\ ~(q_cnt # 0 /\ t_cnt # 0)
    /\ err_printed' = LogErr
    /\ Advance
    /\ UNCHANGED <<inputs, outFile, symbols, sidx, d1, out_df, off, writer,
                   closes, total_rows, row_groups, metrics,
                   summary>>

\* lines 202-204: no quotes or no trades in the shard
ShardEmpty ==
    /\ pc = "shard"
    /\ ~FaultAt("precount", root, day, hr)
    /\ ~(q_cnt # 0 /\ t_cnt # 0)
    /\ Advance
    /\ UNCHANGED <<inputs, outFile, symbols, sidx, d1, out_df, off, writer,
                   closes, total_rows, row_groups, err_printed, metrics,
                   summary>>

\* lines 206-212: shard.collect raises
CollectFails ==
    /\ pc = "shard"
    /\ ~FaultAt("precount", root, day, hr)
    /\ q_cnt # 0 /\ t_cnt # 0
    /\ FaultAt("collect", root, day, hr)
    /\ err_printed' = LogErr
    /\ Continue
    /\ UNCHANGED <<inputs, outFile, symbols, sidx, d1, out_df, off, writer,
                   closes, total_rows, row_groups, metrics,
                   summary>>

\* lines 170, 206-207: out_df = shard.collect(engine="streaming")
Collect ==
    /\ pc = "shard"
    /\ ~FaultAt("precount", root, day, hr)
    /\ q_cnt # 0 /\ t_cnt # 0
    /\ ~FaultAt("collect", root, day, hr)
    /\ out_df' = per_symbol_per_hour_lazy(quotes, trades, root, day, hr)
    /\ off' = 0
    /\ pc' = "write"
    /\ UNCHANGED <<inputs, outFile, loopv, writer, closes, total_rows,
                   row_groups, err_printed, metrics,
                   summary>>


\* the n-th write_table call of the run raises (an I/O error)
WriteFaultNow == fault.kind = "write" /\ fault.n = row_groups + 1

\* lines 222-228: the writer this chunk is written with, opened if None
WriterFor(schema) == IF writer.state = "none" THEN OpenWriter(schema) ELSE writer

FileFor == IF writer.state = "none"
           THEN [exists |-> TRUE, closed |-> FALSE, rgs |-> <<>>]
           ELSE outFile

\* lines 215-234: one slice of out_df becomes one row group
WriteChunk ==
    /\ pc = "write"
    /\ off < Len(out_df)
    /\ LET schema == SchemaOf(root, day, hr)
           chunk == Slice(out_df, off)
       IN  /\ SchemaAccepted(WriterFor(schema), schema)
           /\ ~WriteFaultNow
           /\ writer' = WriterFor(schema)
           /\ outFile' = [FileFor EXCEPT !.rgs =
                 Append(@, [run |-> "new", schema |-> schema, rows |-> chunk])]
           /\ total_rows' = total_rows + Len(chunk)
    /\ row_groups' = row_groups + 1
    /\ off' = off + CHUNK_SIZE
    /\ UNCHANGED <<inputs, pc, loopv, out_df, closes, err_printed, metrics,
                   summary>>

\* line 230: writer.write_table raises; nothing in main() catches it
WriteRaises ==
    /\ pc = "write"
    /\ off < Len(out_df)
    /\ LET schema == SchemaOf(root, day, hr)
       IN  /\ ~SchemaAccepted(WriterFor(schema), schema) \/ WriteFaultNow
           /\ writer' = WriterFor(schema)
           /\ outFile' = FileFor
    /\ pc' = "raised"
    /\ UNCHANGED <<inputs, loopv, out_df, off, closes, total_rows, row_groups,
                   err_printed, metrics,
                   summary>>

\* the slices of the shard are exhausted: on to the next hour
ShardDone ==
    /\ pc = "write"
    /\ off >= Len(out_df)
    /\ Advance
    /\ UNCHANGED <<inputs, outFile, symbols, sidx, d1, out_df, off, writer,
                   closes, total_rows, row_groups, err_printed, metrics,
                   summary>>

\* lines 239-243: if writer: writer.close()
Finish ==
    /\ pc = "symbol"
    /\ sidx = Len(symbols)
    /\ IF writer.state = "open"
       THEN /\ writer' = [writer EXCEPT !.state = "closed"]
            /\ closes' = closes + 1
            /\ outFile' = [outFile EXCEPT !.closed = TRUE]
       ELSE UNCHANGED <<writer, closes, outFile>>
    /\ pc' = "done"
    /\ UNCHANGED <<inputs, loopv, out_df, off, total_rows, row_groups,
                   err_printed, metrics,
                   summary>>

\* An exception left main(): the process ends.  Whether the ParquetWriter's
\* finalizer runs (and closes the file) while the interpreter shuts down is
\* not guaranteed; main() itself closes nothing on this path.
ProcessExit ==
    /\ pc = "raised"
    /\ \E finalized \in BOOLEAN :
         IF finalized /\ writer.state = "open"
         THEN /\ writer' = [writer EXCEPT !.state = "closed"]
              /\ closes' = closes + 1
              /\ outFile' = [outFile EXCEPT !.closed = TRUE]
         ELSE UNCHANGED <<writer, closes, outFile>>
    /\ pc' = "exited"
    /\ UNCHANGED <<inputs, loopv, out_df, off, total_rows, row_groups,
                   err_printed, metrics,
                   summary>>

\* ------------------------------------------------------------------ ms.py

\* a float cell: the exact fraction num / den, den > 0; den = 0 is a null
NullCell == [num |-> 0, den |-> 0]
Cell(n, d) == [num |-> n, den |-> d]

\* lf.filter(SYM_ROOT == ticker)
TickerRows(rows, ticker) == SelectSeq(rows, LAMBDA r : r.SYM_ROOT = ticker)

Remove(rows, i) == SubSeq(rows, 1, i - 1) \o SubSeq(rows, i + 1, Len(rows))

\* .sort("TS"): the orders of the rows with TS ascending (rows of equal TS
\* come in an order the sort does not fix)
RECURSIVE SortedByTS(_)
SortedByTS(rows) ==
    IF rows = <<>> THEN { <<>> }
    ELSE LET first == { i \in DOMAIN rows :
                          \A j \in DOMAIN rows : TsLeq(rows[i].TS, rows[j].TS) }
         IN  UNION { { <<rows[i]>> \o rest : rest \in SortedByTS(Remove(rows, i)) } :
                     i \in first }

\* SIDE with a strict comparison (PRICE > MID)
SIDE_strict(r) == IF r.PRICE # Null /\ r.MID # Null /\ r.PRICE > r.MID THEN 1 ELSE -1

\* pl.when(PRICE >= MID).then(1).otherwise(-1): a null comparison is not true
SIDE(r) == IF r.PRICE # Null /\ r.MID # Null /\ r.PRICE >= r.MID THEN 1 ELSE -1

\* MID.shift(1)
MID_LAG(base, i) == IF i > 1 THEN base[i - 1].MID ELSE Null

\* when(MID_LAG.is_not_null()).then(MID_LAG).otherwise(MID)
ARR_MID(base, i) == IF MID_LAG(base, i) # Null THEN MID_LAG(base, i) ELSE base[i].MID

\* IS_BPS without the when(ARR_MID > 0) guard: a plain float division
IS_BPS_unguarded(base, i) ==
    LET a == ARR_MID(base, i)
    IN  IF a # Null /\ base[i].PRICE # Null
        THEN Cell(10000 * SIDE(base[i]) * (base[i].PRICE - a), IF a > 0 THEN a ELSE 0)
        ELSE NullCell

\* IS_BPS without the factor SIDE
IS_BPS_unsigned(base, i) ==
    LET a == ARR_MID(base, i)
    IN  IF a # Null /\ a > 0 /\ base[i].PRICE # Null
        THEN Cell(10000 * (base[i].PRICE - a), a)
        ELSE NullCell

\* when(ARR_MID > 0).then(10000 * SIDE * (PRICE - ARR_MID) / ARR_MID).otherwise(None)
IS_BPS(base, i) ==
    LET a == ARR_MID(base, i)
    IN  IF a # Null /\ a > 0 /\ base[i].PRICE # Null
        THEN Cell(10000 * SIDE(base[i]) * (base[i].PRICE - a), a)
        ELSE NullCell

\* when(ARR_MID > 0).then(10000 * SIDE * (MID - ARR_MID) / ARR_MID).otherwise(None)
MI_BPS(base, i) ==
    LET a == ARR_MID(base, i)
    IN  IF a # Null /\ a > 0 /\ base[i].MID # Null
        THEN Cell(10000 * SIDE(base[i]) * (base[i].MID - a), a)
        ELSE NullCell

\* a lead that wraps around to the start of the sequence
MID_FWD_wrap(base, i) == base[((i + K_FWD_TRADES - 1) % Len(base)) + 1].MID

\* MID.shift(-K_FWD_TRADES): the rows shifted in at the end are null
MID_FWD(base, i) ==
    IF i + K_FWD_TRADES <= Len(base) THEN base[i + K_FWD_TRADES].MID ELSE Null

\* when(MID > 0).then(10000 * (-SIDE) * (MID_FWD - MID) / MID).otherwise(None)
MR_BPS(base, i) ==
    LET m == base[i].MID
        f == MID_FWD(base, i)
    IN  IF m # Null /\ m > 0 /\ f # Null
        THEN Cell(10000 * (-SIDE(base[i])) * (f - m), m)
        ELSE NullCell

MetricRow(base, i) ==
    [TR_ID |-> base[i].TR_ID, TS |-> base[i].TS, TIME_M |-> base[i].TIME_M,
     PRICE |-> base[i].PRICE, SIZE |-> base[i].SIZE, MID |-> base[i].MID,
     SPREAD |-> base[i].SPREAD, DEPTH_TOB |-> base[i].DEPTH_TOB,
     SIDE |-> SIDE(base[i]), ARR_MID |-> ARR_MID(base, i),
     IS_BPS |-> IS_BPS(base, i), MI_BPS |-> MI_BPS(base, i),
     MID_FWD |-> MID_FWD(base, i), MR_BPS |-> MR_BPS(base, i)]

\* col.sum() of a column (the sequence of its values): nulls are skipped, the
\* sum of no value is 0
RECURSIVE Sum(_)
Sum(col) ==
    IF col = <<>> THEN 0
    ELSE (IF Head(col) = Null THEN 0 ELSE Head(col)) + Sum(Tail(col))

\* the number of non-null values of a column
Count(col) == Len(SelectSeq(col, LAMBDA v : v # Null))

\* a division that gives 0 for a zero denominator
Div_zero(n, d) ==
    IF d # 0 THEN [kind |-> "num", num |-> n, den |-> d]
    ELSE [kind |-> "num", num |-> 0, den |-> 1]

\* float division n / d: 0 / 0 is NaN, x / 0 is infinite, nothing raises
Div(n, d) ==
    IF d # 0 THEN [kind |-> "num", num |-> n, den |-> d]
    ELSE IF n = 0 THEN [kind |-> "nan", num |-> 0, den |-> 0]
         ELSE [kind |-> "inf", num |-> n, den |-> 0]

\* col.mean(): null if the column has no non-null value
Mean(col) ==
    IF Count(col) = 0 THEN [kind |-> "null", num |-> 0, den |-> 0]
    ELSE Div(Sum(col), Count(col))

\* PRICE * SIZE, null if either is
Notional(r) == IF r.PRICE = Null \/ r.SIZE = Null THEN Null ELSE r.PRICE * r.SIZE

\* SPREAD.mean() * 1_0000
SpreadBps(r) == IF r.SPREAD = Null THEN Null ELSE 10000 * r.SPREAD

\* summary_lf: the one row of count, size, VWAP and liquidity context (the
\* min / median / mean / max of IS_BPS, MI_BPS and MR_BPS are left out)
Summary(ticker, rows) ==
    LET SIZE      == [i \in DOMAIN rows |-> rows[i].SIZE]
        PxS       == [i \in DOMAIN rows |-> Notional(rows[i])]
        SPREAD    == [i \in DOMAIN rows |-> SpreadBps(rows[i])]
        DEPTH_TOB == [i \in DOMAIN rows |-> rows[i].DEPTH_TOB]
    IN  [TICKER |-> ticker,
         FWD_TRADES_FOR_MR |-> K_FWD_TRADES,
         N_ROWS |-> Len(rows),
         TOTAL_SIZE |-> Sum(SIZE),
         VWAP |-> Div(Sum(PxS), Sum(SIZE)),
         AVG_SPREAD_BPS |-> Mean(SPREAD),
         AVG_DEPTH_TOB |-> Mean(DEPTH_TOB)]

\* analyze_ticker(ticker) on the merged file the join run left
analyze_ticker ==
    /\ pc = "done"
    /\ outFile.exists /\ outFile.closed
    /\ \E ticker \in Tickers :
         \E base \in SortedByTS(TickerRows(FileRows(outFile.rgs), ticker)) :
            /\ metrics' = [i \in 1..Len(base) |-> MetricRow(base, i)]
            /\ summary' = << Summary(ticker, metrics') >>
    /\ pc' = "analyzed"
    /\ UNCHANGED <<inputs, outFile, loopv, out_df, off, writer, closes,
                   total_rows, row_groups, err_printed>>

\* ------------------------------------------------------------------ specification

Next ==
    \/ Startup
    \/ MainNoSymbols
    \/ MainStart
    \/ SymbolSkip
    \/ SymbolStart
    \/ PrecountFails
    \/ ShardEmpty
    \/ CollectFails
    \/ Collect
    \/ WriteChunk
    \/ WriteRaises
    \/ ShardDone
    \/ Finish
    \/ ProcessExit
    \/ analyze_ticker

Spec == Init /\ [][Next]_vars


\* ------------------------------------------------------------------ the renaming tools

\* the variables of the join run and of the metrics
mainv == <<quotes, trades, top50, CHUNK_SIZE, fault, stale, outFile, pc,
           symbols, sidx, d1, day, hr, out_df, off, writer, closes,
           total_rows, row_groups, err_printed, metrics, summary>>

\* a trades file with some schema is about to be normalised by one of the tools
InitRename ==
    /\ in_schema \in Schemas
    /\ tool \in {"makesTradesColsUpper", "rename"}
    /\ once = NoSchema
    /\ passes = 0
    /\ quotes = <<>> /\ trades = <<>> /\ top50 = <<>>
    /\ CHUNK_SIZE = 1
    /\ fault = NoFault
    /\ stale = FALSE
    /\ outFile = Absent
    /\ pc = "upstream"
    /\ symbols = <<>>
    /\ sidx = 0 /\ d1 = 0 /\ day = 0 /\ hr = 0
    /\ out_df = <<>> /\ off = 0
    /\ writer = NoWriter
    /\ closes = 0
    /\ total_rows = 0 /\ row_groups = 0 /\ err_printed = 0
    /\ metrics = <<>>
    /\ summary = <<>>

\* makesTradesColsUpper.py main(): the file is rewritten under upper_schema
\* of its schema and replaces the output path; the next pass reads that file
UpperSchemaPass ==
    /\ tool = "makesTradesColsUpper"
    /\ passes < 2
    /\ in_schema' = upper_schema(in_schema)
    /\ once' = IF passes = 0 THEN in_schema' ELSE once
    /\ passes' = passes + 1
    /\ UNCHANGED <<tool, mainv>>

\* rename.py, lines 20-34: the file is written to OUT_DIR under upper-case names
RenamePass ==
    /\ tool = "rename"
    /\ passes < 2
    /\ ~Collides(in_schema)
    /\ in_schema' = rename_schema(in_schema)
    /\ once' = IF passes = 0 THEN in_schema' ELSE once
    /\ passes' = passes + 1
    /\ UNCHANGED <<tool, mainv>>

\* rename.py, lines 36-37: the rename raises on a duplicate name; the file is
\* skipped and nothing is written for it
RenameSkipped ==
    /\ tool = "rename"
    /\ passes < 2
    /\ Collides(in_schema)
    /\ tool' = "skipped"
    /\ UNCHANGED <<in_schema, once, passes, mainv>>

NextRename ==
    \/ UpperSchemaPass
    \/ RenamePass
    \/ RenameSkipped

SpecRename == InitRename /\ [][NextRename]_vars

\* ------------------------------------------------------------------ properties

\* the rows this run has written to the merged file, in file order
MergedRows == FileRows(SelectSeq(outFile.rgs, LAMBDA g : g.run = "new"))

\* the quote records of the input that carry an event instant
TimedQuotes(sym) ==
    { k \in DOMAIN quotes : /\ quotes[k].SYM_ROOT = sym
                            /\ quotes[k].DATE # Null
                            /\ quotes[k].TIME_M # NullTime }

QuoteFieldsNull(r) ==
    /\ r.BID = Null /\ r.ASK = Null /\ r.BIDSIZ = Null /\ r.ASKSIZ = Null
    /\ r.MID = Null /\ r.SPREAD = Null /\ r.DEPTH_TOB = Null

\* C1: every merged row with non-null quote fields carries a quote whose
\* instant (DATE + TIME_M, nanoseconds) is at or before the trade's instant,
\* and no quote of the instrument lies strictly between the two.
C1_BackwardMatchNanos ==
    \A i \in DOMAIN MergedRows :
        LET r == MergedRows[i]
        IN  r.BID # Null =>
              /\ InstantLeq(r.DATE_right, r.TIME_M_right, r.DATE, r.TIME_M)
              /\ ~ \E k \in TimedQuotes(r.SYM_ROOT) :
                     /\ InstantLeq(quotes[k].DATE, quotes[k].TIME_M, r.DATE, r.TIME_M)
                     /\ InstantLt(r.DATE_right, r.TIME_M_right,
                                  quotes[k].DATE, quotes[k].TIME_M)

\* the quotes of the instrument at or before the instant of row r
QuotesUpTo(r) ==
    { k \in TimedQuotes(r.SYM_ROOT) :
        InstantLeq(quotes[k].DATE, quotes[k].TIME_M, r.DATE, r.TIME_M) }

\* C2: a trade whose most recent quote at or before it is more than the
\* tolerance (1 s) before it has null quote fields, and a matched quote is
\* never outside the tolerance window before the trade.
C2_ToleranceEnforced ==
    \A i \in DOMAIN MergedRows :
        LET r == MergedRows[i]
        IN  /\ ( /\ QuotesUpTo(r) # {}
                 /\ \A k \in QuotesUpTo(r) :
                      ~InstantWithinTol(quotes[k].DATE, quotes[k].TIME_M,
                                        r.DATE, r.TIME_M) )
               => QuoteFieldsNull(r)
            /\ r.BID # Null =>
                 /\ InstantLeq(r.DATE_right, r.TIME_M_right, r.DATE, r.TIME_M)
                 /\ InstantWithinTol(r.DATE_right, r.TIME_M_right, r.DATE, r.TIME_M)


\* a quote of the instrument at or before row r and within the tolerance of it
NearQuote(r, k) ==
    /\ k \in QuotesUpTo(r)
    /\ InstantWithinTol(quotes[k].DATE, quotes[k].TIME_M, r.DATE, r.TIME_M)

SameShard(r, k) ==
    quotes[k].DATE = r.DATE /\ Hour(quotes[k].TIME_M) = Hour(r.TIME_M)

ShardTrades == ShardRows(trades, root, day, hr)

Scenario ==
    /\ quotes = PickFrom(QuoteCands, {2, 3, 4}, 1)
    /\ trades = PickFrom(TradeCands, {2, 3}, 1)

\* C5: in the scenario the trade at 120 ns is joined to the quote at 100 ns
\* (MID 10.00), the trade at 180 ns to the quote at 150 ns (MID 10.02), and
\* the trade at 120 ns gets SIDE = +1 and IS_BPS = 10.0.
C5_EndToEndScenario ==
    Scenario =>
        /\ \A i \in DOMAIN MergedRows :
             LET r == MergedRows[i]
             IN  /\ r.TIME_M = <<0, 0, 0, 120>> =>
                      r.TIME_M_right = <<0, 0, 0, 100>> /\ r.MID = 1000
                 /\ r.TIME_M = <<0, 0, 0, 180>> =>
                      r.TIME_M_right = <<0, 0, 0, 150>> /\ r.MID = 1002
        /\ \A i \in DOMAIN metrics :
             metrics[i].TIME_M = <<0, 0, 0, 120>> =>
                 /\ metrics[i].SIDE = 1
                 /\ metrics[i].IS_BPS.den > 0
                 /\ metrics[i].IS_BPS.num = 10 * metrics[i].IS_BPS.den

\* C6: of two merged rows of one DATE, the one with the strictly smaller
\* nanosecond time of day has the strictly smaller TS; distinct instants
\* never get equal TS.
C6_TsKeepsStrictOrder ==
    \A i, j \in DOMAIN MergedRows :
        LET a == MergedRows[i]
            b == MergedRows[j]
        IN  (a.DATE = b.DATE /\ InstantLt(a.DATE, a.TIME_M, b.DATE, b.TIME_M))
                => TsLt(a.TS, b.TS)

Midnight == <<0, 0, 0, 0>>

\* C7: no record with a null DATE or a null TIME_M is in a shard's join
\* input, in a join result or in the merged output, as a trade or as the
\* matched quote; a record at 00:00:00 is joined in the hour-0 shard of its
\* DATE and in no other, with TS = midnight of that date.
C7_NullRejectedMidnightAccepted ==
    /\ \A r \in Range(out_df) \cup Range(MergedRows) :
         /\ r.DATE # Null /\ r.TIME_M # NullTime
         /\ r.BID # Null => r.DATE_right # Null /\ r.TIME_M_right # NullTime
    /\ pc = "write" =>
         /\ \A r \in Range(ShardRows(quotes, root, day, hr))
                       \cup Range(ShardRows(trades, root, day, hr)) :
              r.DATE # Null /\ r.TIME_M # NullTime
         /\ \A r \in Range(out_df) :
              /\ r.DATE = day /\ Hour(r.TIME_M) = hr
              /\ r.TIME_M = Midnight => hr = 0 /\ r.TS = <<r.DATE, 0, 0>>
              /\ r.TIME_M_right = Midnight => hr = 0
         /\ \A k \in DOMAIN trades :
              ( /\ trades[k].TIME_M = Midnight /\ trades[k].DATE = day
                /\ trades[k].SYM_ROOT = root /\ hr = 0 )
              => \E i \in DOMAIN out_df : out_df[i].TR_ID = trades[k].TR_ID

\* C7 witness: the input holds a trade without DATE and a quote without
\* TIME_M, and the midnight trade was written matched to the midnight quote
C7_Witness ==
    /\ pc = "done"
    /\ \E k \in DOMAIN trades : trades[k].DATE = Null
    /\ \E k \in DOMAIN quotes : quotes[k].TIME_M = NullTime
    /\ \E i \in DOMAIN MergedRows :
         /\ MergedRows[i].TIME_M = Midnight
         /\ MergedRows[i].TIME_M_right = Midnight
         /\ MergedRows[i].TS = <<1, 0, 0>>


\* C8: once the ParquetWriter was opened, it is closed exactly once by the
\* time the run has ended, whether main() returned or an exception left it.
C8_WriterClosedOnEveryExit ==
    /\ closes <= 1
    /\ (pc \in {"done", "analyzed", "exited"} /\ writer.state # "none")
          => closes = 1 /\ outFile.closed

\* the schema of the chunk about to be written
ChunkSchema == SchemaOf(root, day, hr)

WritePending == pc = "write" /\ off < Len(out_df)

\* One step of C9: the first chunk written fixes the writer's schema for the run; a
\* later chunk of the same schema is appended (unless the write itself
\* fails), and a later chunk of another schema raises and leaves the file,
\* total_rows and row_groups as they were; every row group of the file has
\* the writer's schema.
C9_SchemaStep ==
    /\ writer.state # "none" => writer'.schema = writer.schema
    /\ WritePending =>
         IF writer.state = "none"
         THEN writer'.state = "open" /\ writer'.schema = ChunkSchema
         ELSE IF ChunkSchema = writer.schema
              THEN ~WriteFaultNow =>
                     /\ pc' = "write"
                     /\ outFile'.rgs = Append(outFile.rgs,
                           [run |-> "new", schema |-> ChunkSchema,
                            rows |-> Slice(out_df, off)])
              ELSE /\ pc' = "raised"
                   /\ outFile'.rgs = outFile.rgs
                   /\ total_rows' = total_rows /\ row_groups' = row_groups
    /\ \A i \in DOMAIN outFile'.rgs :
         outFile'.rgs[i].run = "new" => outFile'.rgs[i].schema = writer'.schema

\* C9: every step of the run keeps the writer's schema as the first chunk
\* fixed it, appends a conforming chunk and refuses a differing one.
C9_WriterSchemaStable == [][C9_SchemaStep]_vars

\* C9 witness: with row groups already written, a chunk of another schema
\* made write_table raise
C9_Witness ==
    /\ pc = "raised"
    /\ row_groups >= 1
    /\ writer.state = "open"
    /\ ChunkSchema # writer.schema
    /\ Len(outFile.rgs) = row_groups

NoStaleRows == \A i \in DOMAIN outFile.rgs : outFile.rgs[i].run = "new"

\* C10: from the start of main() on, the target path holds nothing a previous
\* run wrote: the file is absent before the first write, and every row group
\* in it was written by this run.
C10_NoStaleOutput ==
    pc # "startup" =>
        /\ NoStaleRows
        /\ writer.state = "none" => ~outFile.exists

\* C10 witness: a previous run had left a merged file, and this run ended
\* with a file of its own row groups
C10_Witness ==
    /\ stale
    /\ pc = "done"
    /\ outFile.exists
    /\ row_groups >= 1
    /\ Len(outFile.rgs) = row_groups


\* the shard at hand raises in the pre-count or in the collect
FailingShard ==
    /\ pc = "shard"
    /\ \/ FaultAt("precount", root, day, hr)
       \/ q_cnt # 0 /\ t_cnt # 0 /\ FaultAt("collect", root, day, hr)

\* the (day, hr) after the shard at hand, <<>> after the last of the symbol
NextShard ==
    IF hr + 1 < HoursPerDay THEN <<day, hr + 1>>
    ELSE IF day + 1 <= d1 THEN <<day + 1, 0>> ELSE <<>>

\* the shard of trade t has a quote, and neither its pre-count nor its
\* collect raises
HealthyShard(t) ==
    /\ t.DATE # Null /\ t.TIME_M # NullTime
    /\ t.SYM_ROOT \in Range(symbols)
    /\ \E k \in DOMAIN quotes :
         InShard(quotes[k], t.SYM_ROOT, t.DATE, Hour(t.TIME_M))
    /\ ~FaultAt("precount", t.SYM_ROOT, t.DATE, Hour(t.TIME_M))
    /\ ~FaultAt("collect", t.SYM_ROOT, t.DATE, Hour(t.TIME_M))

\* every trade of a healthy shard is in the merged file, and no other trade
HealthyShardsWritten ==
    \A k \in DOMAIN trades :
        HealthyShard(trades[k])
            <=> \E i \in DOMAIN MergedRows : MergedRows[i].TR_ID = trades[k].TR_ID

\* One step of C11: a shard whose pre-count or collect raises leaves the
\* file, the writer, total_rows and row_groups as they were and the run goes
\* on with the next (day, hr); and when main() returns, the trades of every
\* other shard that has quotes are in the merged file.
C11_Step ==
    /\ FailingShard =>
         /\ outFile' = outFile /\ writer' = writer
         /\ total_rows' = total_rows /\ row_groups' = row_groups
         /\ IF NextShard = <<>> THEN pc' = "symbol"
            ELSE pc' = "shard" /\ <<day', hr'>> = NextShard
    /\ pc' = "done" => HealthyShardsWritten'

\* C11: a shard whose pre-count or collect raises is skipped, changes nothing
\* already written and does not keep the later shards from being written.
C11_ShardFailureIsolated == [][C11_Step]_vars

\* C11 witness: the hour-0 shard, which has quotes and trades, raised, and
\* the run went on to write the trade of hour 1
C11_Witness ==
    /\ pc = "done"
    /\ fault.kind \in {"precount", "collect"} /\ fault.hr = 0
    /\ err_printed = 1
    /\ \E k \in DOMAIN trades :
         /\ InShard(trades[k], "ABC", 1, 0)
         /\ ~ \E i \in DOMAIN MergedRows : MergedRows[i].TR_ID = trades[k].TR_ID
    /\ \E i \in DOMAIN MergedRows : Hour(MergedRows[i].TIME_M) = 1
    /\ row_groups = Len(outFile.rgs) /\ outFile.closed

\* One step of C12: every shard failure caught in main() is logged and
\* counted (the log line and err_printed += 1 are one branch of the code).
C12_Step == FailingShard => err_printed' = err_printed + 1

\* C12: no caught shard failure goes without a log entry and a counter
\* increment, however many failures came before it.
C12_EveryFailureLogged == [][C12_Step]_vars

\* ------------------------------------------------------------------ properties of ms.py

\* a row with an execution price and a size
Priced(r) == r.PRICE # Null /\ r.SIZE # Null

\* C13: the metric sequence holds only rows with non-null PRICE and SIZE,
\* and N_ROWS counts exactly the merged rows of the ticker that have both.
C13_FilterDropsNullPriceSize ==
    pc = "analyzed" =>
        /\ \A i \in DOMAIN metrics : Priced(metrics[i])
        /\ summary[1].N_ROWS =
             Len(SelectSeq(TickerRows(MergedRows, summary[1].TICKER), Priced))

\* C14: SIDE of every metric row is +1 or -1; it is +1 exactly when PRICE and
\* MID are non-null and PRICE >= MID, and -1 otherwise.
C14_SideIsPlusOrMinusOne ==
    \A i \in DOMAIN metrics :
        LET r == metrics[i]
        IN  /\ r.SIDE \in {1, -1}
            /\ r.SIDE = 1 <=> (r.PRICE # Null /\ r.MID # Null /\ r.PRICE >= r.MID)

\* C14 witness: a sequence with a row of null PRICE, a row of null MID, a
\* row with PRICE = MID (SIDE +1) and a row with PRICE < MID (SIDE -1)
C14_Witness ==
    /\ pc = "analyzed"
    /\ \E i \in DOMAIN metrics : metrics[i].PRICE = Null /\ metrics[i].SIDE = -1
    /\ \E i \in DOMAIN metrics :
         metrics[i].MID = Null /\ metrics[i].PRICE # Null /\ metrics[i].SIDE = -1
    /\ \E i \in DOMAIN metrics :
         metrics[i].MID # Null /\ metrics[i].PRICE = metrics[i].MID /\ metrics[i].SIDE = 1
    /\ \E i \in DOMAIN metrics :
         /\ metrics[i].PRICE # Null /\ metrics[i].MID # Null
         /\ metrics[i].PRICE < metrics[i].MID /\ metrics[i].SIDE = -1

\* a metric cell that holds a value holds a fraction of positive denominator
Guarded(c) == c = NullCell \/ c.den > 0

C16_MetricFormulas ==
    \A i \in DOMAIN metrics :
        LET r == metrics[i]
        IN  /\ (r.ARR_MID > 0 /\ r.PRICE # Null) =>
                  r.IS_BPS = Cell(10000 * r.SIDE * (r.PRICE - r.ARR_MID), r.ARR_MID)
            /\ (r.ARR_MID > 0 /\ r.MID # Null) =>
                  r.MI_BPS = Cell(10000 * r.SIDE * (r.MID - r.ARR_MID), r.ARR_MID)
            /\ (r.MID > 0 /\ r.MID_FWD # Null) =>
                  r.MR_BPS = Cell(10000 * (-r.SIDE) * (r.MID_FWD - r.MID), r.MID)
            /\ (r.ARR_MID = 10000 /\ r.PRICE = 10005 /\ r.SIDE = 1) =>
                  r.IS_BPS.den > 0 /\ r.IS_BPS.num = 5 * r.IS_BPS.den
            /\ (r.MID = 10002 /\ r.MID_FWD = 9998 /\ r.SIDE = 1) =>
                  /\ r.MR_BPS.den > 0
                  /\ 399 * r.MR_BPS.den <= 100 * r.MR_BPS.num
                  /\ 100 * r.MR_BPS.num <= 400 * r.MR_BPS.den

\* C16 witness: the row of the two examples (ARR_MID 100.00, PRICE 100.05,
\* MID 100.02, MID_FWD 99.98), and a row of SIDE -1 with a non-zero IS_BPS
C16_Witness ==
    /\ pc = "analyzed"
    /\ \E i \in DOMAIN metrics :
         /\ metrics[i].ARR_MID = 10000 /\ metrics[i].PRICE = 10005
         /\ metrics[i].SIDE = 1
         /\ metrics[i].MID = 10002 /\ metrics[i].MID_FWD = 9998
         /\ metrics[i].IS_BPS = Cell(50000, 10000)
         /\ metrics[i].MR_BPS = Cell(40000, 10002)
    /\ \E i \in DOMAIN metrics :
         metrics[i].SIDE = -1 /\ metrics[i].IS_BPS.den > 0 /\ metrics[i].IS_BPS.num # 0

\* C17: an analysis emits exactly one summary row, over every row of the
\* metric sequence, whatever the sequence (empty, or of total SIZE 0); with a
\* total SIZE of 0 the VWAP is null or NaN.
C17_OneSummaryRow ==
    IF pc = "analyzed"
    THEN /\ Len(summary) = 1
         /\ summary[1].N_ROWS = Len(metrics)
         /\ summary[1].TOTAL_SIZE = 0 => summary[1].VWAP.kind \in {"null", "nan"}
    ELSE summary = <<>>

\* C17 witness: the summary of a sequence of two trades of size 0
C17_Witness ==
    /\ pc = "analyzed"
    /\ Len(metrics) = 2
    /\ summary[1].N_ROWS = 2
    /\ summary[1].TOTAL_SIZE = 0
    /\ summary[1].VWAP.kind = "nan"

\* C19: the ARR_MID of the first row of the sequence is its own MID, and the
\* ARR_MID of every other row is the MID of the row before it.
C19_ArrMidIsPreviousMid ==
    \A i \in DOMAIN metrics :
        IF i = 1 THEN metrics[i].ARR_MID = metrics[i].MID
        ELSE metrics[i].ARR_MID = metrics[i - 1].MID

\* C20: MID_FWD of row i is the MID of row i + K_FWD_TRADES; the last
\* K_FWD_TRADES rows have null MID_FWD and null MR_BPS.
C20_LeadNullAtEnd ==
    \A i \in DOMAIN metrics :
        IF i + K_FWD_TRADES <= Len(metrics)
        THEN metrics[i].MID_FWD = metrics[i + K_FWD_TRADES].MID
        ELSE metrics[i].MID_FWD = Null /\ metrics[i].MR_BPS = NullCell

\* C20 witness: a sequence longer than K_FWD_TRADES: its second row leads to
\* the row K_FWD_TRADES ahead, the rows from the fifth on have no lead
C20_Witness ==
    /\ pc = "analyzed"
    /\ Len(metrics) = K_FWD_TRADES + 4
    /\ metrics[2].MID_FWD = 9998 /\ metrics[2].MR_BPS # NullCell
    /\ metrics[K_FWD_TRADES + 2].MID = 9998
    /\ \A i \in 5..Len(metrics) : metrics[i].MID_FWD = Null
    /\ metrics[1].MID # Null /\ metrics[5].MID # Null

\* ------------------------------------------------------------------ properties of the renaming

\* C18: the schema after two applications of the upper-case normalisation is
\* the schema after one: the same fields in the same order with the same
\* names, types and nullability; a normalised schema has upper-case names
\* only.
C18_RenameIdempotent ==
    /\ passes = 1 => in_schema = once
    /\ passes = 2 =>
         /\ Len(in_schema.fields) = Len(once.fields)
         /\ \A i \in DOMAIN in_schema.fields :
              /\ in_schema.fields[i].name = once.fields[i].name
              /\ in_schema.fields[i].type = once.fields[i].type
              /\ in_schema.fields[i].nullable = once.fields[i].nullable
         /\ in_schema = once
    /\ passes >= 1 =>
         \A i \in DOMAIN in_schema.fields :
             upper(in_schema.fields[i].name) = in_schema.fields[i].name

\* C18 witness: a schema of two fields was normalised twice; its first name
\* holds a letter that only the upper-casing can have produced
C18_Witness ==
    /\ passes = 2
    /\ Len(in_schema.fields) = 2
    /\ in_schema.fields[1].name = <<"A", "B">>
    /\ in_schema.fields[2].type # "int64"

\* ------------------------------------------------------------------ properties of the run

\* the quotes of the input that row r's matched quote is tied with: same
\* instrument, same TS
TiedQuotes(r) ==
    { k \in TimedQuotes(r.SYM_ROOT) :
        build_ts_us(quotes[k]) =
            build_ts_us([DATE |-> r.DATE_right, TIME_M |-> r.TIME_M_right]) }

\* C21: the quote a merged row carries has the highest sequence number of
\* the quotes of its instrument that share its TS.
C21_TieBreakBySequence ==
    \A i \in DOMAIN MergedRows :
        LET r == MergedRows[i]
        IN  r.BID # Null =>
              \A k \in TiedQuotes(r) : quotes[k].QU_SEQNUM <= r.QU_SEQNUM

\* the DATEs of the quotes of an instrument
QuoteDates(sym) ==
    { quotes[k].DATE : k \in { j \in DOMAIN quotes :
          quotes[j].SYM_ROOT = sym /\ quotes[j].DATE # Null } }

\* One step of C22.  The symbol loop takes the instruments one by one; an
\* instrument without a dated quote gets no shard, any other starts at
\* (min quote DATE, hour 0); from a shard the run goes to the next hour, from
\* hour 23 to hour 0 of the next day, and leaves the instrument only after
\* (max quote DATE, hour 23): every (day, hour) of the range exactly once, in
\* ascending order.
C22_Step ==
    /\ pc = "symbol" /\ pc' # "done" =>
         /\ sidx < Len(symbols) /\ sidx' = sidx + 1 /\ symbols' = symbols
         /\ LET ds == QuoteDates(symbols[sidx + 1])
            IN  IF ds = {} THEN pc' = "symbol"
                ELSE /\ pc' = "shard" /\ hr' = 0
                     /\ day' \in ds /\ d1' \in ds
                     /\ \A e \in ds : day' <= e /\ e <= d1'
    /\ pc \in {"shard", "write"} /\ pc' # "raised" =>
         /\ sidx' = sidx /\ d1' = d1 /\ symbols' = symbols
         /\ \/ pc' = "write" /\ day' = day /\ hr' = hr
            \/ pc' = "shard" /\ hr + 1 < HoursPerDay /\ day' = day /\ hr' = hr + 1
            \/ pc' = "shard" /\ hr + 1 = HoursPerDay /\ day < d1
                 /\ day' = day + 1 /\ hr' = 0
            \/ pc' = "symbol" /\ hr + 1 = HoursPerDay /\ day = d1
    /\ pc' \in {"shard", "write"} =>
         /\ sidx' \in DOMAIN symbols'
         /\ day' \in QuoteDates(symbols'[sidx']) \/ day' - 1 \in 1..(d1' - 1)
         /\ day' <= d1' /\ d1' \in QuoteDates(symbols'[sidx'])
         /\ hr' \in 0..(HoursPerDay - 1)
    /\ \A i, j \in DOMAIN symbols' : symbols'[i] = symbols'[j] => i = j

\* C22: main() visits, for each selected instrument with a quote, every
\* (day, hour) of [min quote DATE, max quote DATE] x 0..23 exactly once in
\* ascending order, and an instrument without quotes gets no shard.  The
\* enumeration ends: every step of it moves to the next of the finitely many
\* (instrument, day, hour), none is taken twice.
C22_ShardEnumeration == [][C22_Step]_vars

\* main() returned after the 48 shards of ABC (two days) and the 24 of XYZ
C22_Witness ==
    /\ pc = "done" /\ Len(symbols) = 2
    /\ QuoteDates("ABC") = {1, 2} /\ QuoteDates("XYZ") = {1}
    /\ root = "ABC" /\ day = 2 /\ hr = HoursPerDay - 1

\* the rows of a file that fall into the (day, hour) shard of an instrument
InShardOf(file, sym, d, h) ==
    { k \in DOMAIN file :
        /\ file[k].SYM_ROOT = sym /\ file[k].DATE = d
        /\ file[k].TIME_M # NullTime /\ Hour(file[k].TIME_M) = h }

\* the shard at hand has no quote or no trade, and its pre-count returns
EmptyShard ==
    /\ pc = "shard"
    /\ ~FaultAt("precount", root, day, hr)
    /\ InShardOf(quotes, root, day, hr) = {} \/ InShardOf(trades, root, day, hr) = {}

C23_Step ==
    EmptyShard =>
        /\ pc' \in {"shard", "symbol"}
        /\ outFile' = outFile /\ writer' = writer
        /\ total_rows' = total_rows /\ row_groups' = row_groups
        /\ err_printed' = err_printed

\* C23: a shard with zero quotes or zero trades is skipped: no exception, no
\* row group, the writer is not opened, and writer, total_rows, row_groups
\* and err_printed stay as they are.
C23_EmptyShardSkipped == [][C23_Step]_vars

\* main() returned from a run whose shards were all empty, one with quotes
\* and no trade, one with trades and no quote
C23_Witness ==
    /\ pc = "done" /\ fault = NoFault /\ root = "ABC"
    /\ \E h \in 0..(HoursPerDay - 1) :
         InShardOf(quotes, "ABC", day, h) # {} /\ InShardOf(trades, "ABC", day, h) = {}
    /\ \E h \in 0..(HoursPerDay - 1) :
         InShardOf(quotes, "ABC", day, h) = {} /\ InShardOf(trades, "ABC", day, h) # {}
    /\ writer = NoWriter /\ ~outFile.exists
    /\ total_rows = 0 /\ row_groups = 0 /\ err_printed = 0

\* the row groups this run has written
NewGroups == SelectSeq(outFile.rgs, LAMBDA g : g.run = "new")

\* the place of a row's shard in the enumeration: the index of its
\* instrument in symbols, its day, its hour
ShardKey(r) ==
    << CHOOSE i \in DOMAIN symbols : symbols[i] = r.SYM_ROOT, r.DATE, Hour(r.TIME_M) >>

KeyLt(a, b) ==
    \/ a[1] < b[1]
    \/ a[1] = b[1] /\ a[2] < b[2]
    \/ a[1] = b[1] /\ a[2] = b[2] /\ a[3] < b[3]

\* the position of a row's trade in the trades input
FilePos(r) == CHOOSE k \in DOMAIN trades : trades[k].TR_ID = r.TR_ID

\* C24: the rows of the merged file come in shard-processing order, and the
\* rows of one shard in the order of its frame (slice after slice); a row
\* group holds rows of one shard; while a shard's frame is written, every row
\* of the file is of that shard or of an earlier one, and when the next shard
\* begins every row of the file is of an earlier shard.
C24_ShardProcessingOrder ==
    /\ \A i, j \in DOMAIN MergedRows :
         i < j =>
            \/ KeyLt(ShardKey(MergedRows[i]), ShardKey(MergedRows[j]))
            \/ /\ ShardKey(MergedRows[i]) = ShardKey(MergedRows[j])
               /\ FilePos(MergedRows[i]) < FilePos(MergedRows[j])
    /\ \A g \in DOMAIN NewGroups :
         \A i, j \in DOMAIN NewGroups[g].rows :
            ShardKey(NewGroups[g].rows[i]) = ShardKey(NewGroups[g].rows[j])
    /\ pc = "write" =>
         /\ \A i \in DOMAIN out_df : ShardKey(out_df[i]) = <<sidx, day, hr>>
         /\ \A i \in DOMAIN MergedRows :
              \/ KeyLt(ShardKey(MergedRows[i]), <<sidx, day, hr>>)
              \/ /\ ShardKey(MergedRows[i]) = <<sidx, day, hr>>
                 /\ \E k \in 1..Min(off, Len(out_df)) :
                      out_df[k].TR_ID = MergedRows[i].TR_ID
    /\ pc = "shard" =>
         \A i \in DOMAIN MergedRows :
            KeyLt(ShardKey(MergedRows[i]), <<sidx, day, hr>>)

\* main() returned with XYZ taken before ABC: the row group of XYZ, the two
\* row groups of ABC's first hour (one row each), the row group of day 2
C24_Witness ==
    /\ pc = "done" /\ symbols = <<"XYZ", "ABC">> /\ CHUNK_SIZE = 1
    /\ Len(NewGroups) = 4
    /\ ShardKey(NewGroups[1].rows[1]) = <<1, 1, 0>>
    /\ ShardKey(NewGroups[2].rows[1]) = <<2, 1, 0>>
    /\ ShardKey(NewGroups[3].rows[1]) = <<2, 1, 0>>
    /\ ShardKey(NewGroups[4].rows[1]) = <<2, 2, 0>>
    /\ FilePos(NewGroups[2].rows[1]) < FilePos(NewGroups[3].rows[1])

RECURSIVE GroupRows(_)
\* the sum of the row counts of a sequence of row groups
GroupRows(gs) ==
    IF gs = <<>> THEN 0 ELSE Len(gs[1].rows) + GroupRows(Tail(gs))

\* the counters count what is in the file, a row group has 1..CHUNK_SIZE
\* rows, and no writer means no file
CountersMatchFile ==
    /\ row_groups = Len(NewGroups)
    /\ total_rows = GroupRows(NewGroups)
    /\ \A g \in DOMAIN NewGroups : Len(NewGroups[g].rows) \in 1..CHUNK_SIZE
    /\ pc \notin {"startup", "main"} /\ writer.state = "none" => ~outFile.exists

\* the writer goes from None to open only in the chunk loop with a non-empty
\* chunk at hand, and a writer once opened is never replaced
OpenedOnceForAChunk ==
    /\ writer.state = "none" /\ writer'.state # "none" =>
         /\ pc = "write" /\ Len(Slice(out_df, off)) >= 1
         /\ writer'.state = "open"
    /\ writer.state # "none" =>
         writer'.state # "none" /\ writer'.schema = writer.schema

ShardJoined(s, d, h) ==
    /\ InShardOf(quotes, symbols[s], d, h) # {}
    /\ InShardOf(trades, symbols[s], d, h) # {}
    /\ ~FaultAt("precount", symbols[s], d, h)
    /\ ~FaultAt("collect", symbols[s], d, h)

\* trade t lies in a joined shard of a selected instrument
TradeDue(t) ==
    /\ t.DATE # Null /\ t.TIME_M # NullTime
    /\ \E s \in DOMAIN symbols :
         symbols[s] = t.SYM_ROOT /\ ShardJoined(s, t.DATE, Hour(t.TIME_M))

\* the rows of the merged file that carry trade t
RowsOf(t) == { i \in DOMAIN MergedRows : MergedRows[i].TR_ID = t.TR_ID }

RECURSIVE HoursFrom(_, _, _), DaysFrom(_, _), SymbolsFrom(_)
\* the joined frames of the shards in enumeration order, one after another:
\* what a run writes, whatever its CHUNK_SIZE
HoursFrom(s, d, h) ==
    IF h >= HoursPerDay THEN <<>>
    ELSE (IF ShardJoined(s, d, h)
          THEN per_symbol_per_hour_lazy(quotes, trades, symbols[s], d, h)
          ELSE <<>>) \o HoursFrom(s, d, h + 1)

DaysFrom(s, d) ==
    IF \A e \in QuoteDates(symbols[s]) : e < d THEN <<>>
    ELSE HoursFrom(s, d, 0) \o DaysFrom(s, d + 1)

SymbolsFrom(s) ==
    IF s > Len(symbols) THEN <<>>
    ELSE (IF QuoteDates(symbols[s]) = {} THEN <<>>
          ELSE DaysFrom(s, CHOOSE d \in QuoteDates(symbols[s]) :
                              \A e \in QuoteDates(symbols[s]) : d <= e))
         \o SymbolsFrom(s + 1)

=============================================================================
